---- MODULE Spec2Model ----
(***************************************************************************)
(* A model of firejail-spawn (src/src/lib.rs): the FireJailCommand builder, *)
(* the CapsDropBuilder sub-builder and FireJailCommand::spawn, which turns  *)
(* the Profile, the executable and the target arguments into arguments of   *)
(* the inner std::process::Command and starts the launcher.                 *)
(*                                                                         *)
(* Only the Profile fields that some method writes or spawn reads are kept; *)
(* the other fields of Profile are set once by new() and never touched.     *)
(* current_dir, env*, stdin/stdout/stderr forward to the inner Command and  *)
(* do not touch its argument list; they are left out.                       *)
(***************************************************************************)
EXTENDS Naturals, Sequences, FiniteSets, TLC

\* ------------------------------------------------------------------ bounds
\* Method calls (builder, sub-builder and spawn) a caller makes in Spec.
MaxCalls == 3
\* Method calls a caller makes in SpecCaps.
MaxCapsCalls == 6
\* Method calls made on the two commands of SpecPair, in total.
MaxPairCalls == 6
\* Builder and sub-builder calls a caller makes before the spawn in SpecOrder.
MaxOrderCalls == 7

\* ------------------------------------------------------------------ inputs
\* What a caller passes: single values for the singular methods, and for the
\* plural ones an empty sequence and one that is neither sorted nor a set.
Programs == {"env", "hostname"}
Strs == {"a", "b"}
StrLists == {<<>>, <<"b", "a">>}
Paths == {"/a", "/b"}
PathLists == {<<>>, <<"/b", "/a">>}
BindPairs == {<<"/a", "/b">>, <<"/c", "/d">>}
BindLists == {<<>>, <<<<"/c", "/d">>, <<"/a", "/b">>>>}
CapNames == {"chown", "fowner"}
CapLists == {<<>>, <<"fowner", "chown">>}
CpuNos == {0, 1}
CpuLists == {<<>>, <<1, 0>>}

\* Option<T>: None, or Some(v).
None == <<>>
Some(v) == <<v>>

\* ------------------------------------------------------------------ state
VARIABLES
    executable,  \* executable[c]: FireJailCommand.executable
    arg_vec,     \* arg_vec[c]: FireJailCommand.arg_vec
    profile,     \* profile[c]: FireJailCommand.profile
    inner,       \* inner[c]: the argument list of FireJailCommand.inner
    spawns,      \* spawns[c]: how many times spawn was called on c
    builder,     \* the CapsDropBuilder: [keep |-> .0, drop |-> .1]
    built,       \* the CapsDrop value build() returned, until it is moved
    budget       \* method calls the caller has left

vars == <<executable, arg_vec, profile, inner, spawns, builder, built, budget>>
cmdvars == <<executable, arg_vec, profile, inner, spawns>>

Cmds == DOMAIN profile

\* enum CapsDrop
NotSpecified == [tag |-> "NotSpecified"]
DropAll == [tag |-> "DropAll"]
Settings(w, b) == [tag |-> "Settings", whitelist |-> w, blacklist |-> b]

\* CapsDrop::drop_all
drop_all == DropAll

\* The names bool_option! is invoked with.
Switches == {"verbose", "allow_debuggers", "allusers", "apparmor", "appimage",
             "caps", "disable_mnt", "deterministic_exit_code"}
\* The names inlinablestring_option_replace! is invoked with.
StringOptions == {"cgroup", "hostname"}
\* The names path_option_replace! is invoked with.
PathOptions == {"hosts_file"}

\* The Profile that FireJailCommand::new builds.
NewProfile ==
    [verbose |-> FALSE, allow_debuggers |-> FALSE, allusers |-> FALSE,
     apparmor |-> FALSE, appimage |-> FALSE, caps |-> FALSE,
     caps_drop |-> NotSpecified, bind |-> <<>>, blacklists |-> <<>>,
     cgroup |-> None, cpu |-> <<>>, disable_mnt |-> FALSE,
     deterministic_exit_code |-> FALSE, dns |-> <<>>, hostname |-> None,
     hosts_file |-> None, ignore |-> <<>>]

\* FireJailCommand::new(program) for every command in C, and CapsDrop::builder(),
\* by a caller that goes on to make n method calls.
new(C, n) ==
    /\ executable \in [C -> Programs]
    /\ arg_vec = [c \in C |-> <<>>]
    /\ profile = [c \in C |-> NewProfile]
    /\ inner = [c \in C |-> <<>>]
    /\ spawns = [c \in C |-> 0]
    /\ builder = [keep |-> <<>>, drop |-> <<>>]
    /\ built = None
    /\ budget = n

\* ------------------------------------------------------- builder methods
\* Vec::push and Vec::extend.
\* (mutant of push: the list kept as a set, a repeated element dropped)
push_dedup(v, x) == IF \E i \in 1..Len(v) : v[i] = x THEN v ELSE Append(v, x)

push(v, x) == Append(v, x)
extend(v, xs) == v \o xs

\* A top-level builder method: it writes field f of c's Profile.
SetField(c, f, v) ==
    /\ profile' = [profile EXCEPT ![c][f] = v]
    /\ budget > 0
    /\ budget' = budget - 1
    /\ UNCHANGED <<executable, arg_vec, inner, spawns, builder, built>>

\* (mutant of bool_option: the flag handed to inner at the call, not at spawn)
bool_option_eager(c, name) ==
    /\ budget > 0
    /\ budget' = budget - 1
    /\ profile' = [profile EXCEPT ![c][name] = TRUE]
    /\ inner' = [inner EXCEPT ![c] = Append(@, name)]
    /\ UNCHANGED <<executable, arg_vec, spawns, builder, built>>

bool_option(c, name) == SetField(c, name, TRUE)

\* (mutant of inlinablestring_option_replace: get_or_insert, first write wins)
inlinablestring_option_keep(c, name, s) ==
    SetField(c, name, IF profile[c][name] = None THEN Some(s) ELSE profile[c][name])

inlinablestring_option_replace(c, name, s) == SetField(c, name, Some(s))

path_option_replace(c, name, s) == SetField(c, name, Some(s))

cpu(c, no) == SetField(c, "cpu", push(profile[c].cpu, no))

\* iter holds usize values: x.as_() of a usize is x.
cpus(c, iter) == SetField(c, "cpu", extend(profile[c].cpu, iter))

blacklist(c, path) == SetField(c, "blacklists", push(profile[c].blacklists, path))

blacklists(c, paths) == SetField(c, "blacklists", extend(profile[c].blacklists, paths))

bind(c, a, b) == SetField(c, "bind", push(profile[c].bind, <<a, b>>))

binds(c, pairs) == SetField(c, "bind", extend(profile[c].bind, pairs))

dns(c, s) == SetField(c, "dns", push(profile[c].dns, s))

dnss(c, ss) == SetField(c, "dns", extend(profile[c].dns, ss))

ignore(c, s) == SetField(c, "ignore", push(profile[c].ignore, s))

ignores(c, ss) == SetField(c, "ignore", extend(profile[c].ignore, ss))

\* arg and args write arg_vec, not the Profile.
SetArgVec(c, v) ==
    /\ arg_vec' = [arg_vec EXCEPT ![c] = v]
    /\ budget > 0
    /\ budget' = budget - 1
    /\ UNCHANGED <<executable, profile, inner, spawns, builder, built>>

arg(c, s) == SetArgVec(c, push(arg_vec[c], s))

args(c, ss) == SetArgVec(c, extend(arg_vec[c], ss))

\* caps_drop(cfg) with cfg built in place: CapsDrop::NotSpecified or drop_all().
caps_drop(c, cfg) == SetField(c, "caps_drop", cfg)

\* caps_drop(cfg) with cfg the value build() returned; the value is moved.
caps_drop_built(c) ==
    /\ built /= None
    /\ profile' = [profile EXCEPT ![c].caps_drop = built[1]]
    /\ built' = None
    /\ budget > 0
    /\ budget' = budget - 1
    /\ UNCHANGED <<executable, arg_vec, inner, spawns, builder>>

\* --------------------------------------------------- CapsDropBuilder
\* (mutant of SetBuilder: build() shares the lists instead of cloning them)
SetBuilder_shared(b) ==
    /\ budget > 0
    /\ budget' = budget - 1
    /\ builder' = b
    /\ built' = IF built = None THEN None ELSE Some([built[1] EXCEPT !.whitelist = b.keep,
                                                                    !.blacklist = b.drop])
    /\ UNCHANGED cmdvars

SetBuilder(b) ==
    /\ builder' = b
    /\ budget > 0
    /\ budget' = budget - 1
    /\ UNCHANGED <<cmdvars, built>>

CapsDropBuilder_blacklist(a) == SetBuilder([builder EXCEPT !.drop = push(@, a)])

CapsDropBuilder_whilelist(a) == SetBuilder([builder EXCEPT !.keep = push(@, a)])

CapsDropBuilder_blacklists(i) == SetBuilder([builder EXCEPT !.drop = extend(@, i)])

CapsDropBuilder_whilelists(i) == SetBuilder([builder EXCEPT !.keep = extend(@, i)])

\* build(&self): the two lists are cloned into a CapsDrop::Settings.
BuildValue(b) == Settings(b.keep, b.drop)

build ==
    /\ built' = Some(BuildValue(builder))
    /\ budget > 0
    /\ budget' = budget - 1
    /\ UNCHANGED <<cmdvars, builder>>

\* ------------------------------------------------------------- spawn
\* [T]::join(sep) on strings.
RECURSIVE join(_, _)
join(v, sep) ==
    IF Len(v) = 0 THEN ""
    ELSE IF Len(v) = 1 THEN v[1]
    ELSE v[1] \o sep \o join(Tail(v), sep)

\* Path::display of a path that is valid UTF-8, and {} of an InlinableString.
display(p) == p

\* format!("{}", x) of a usize.
fmt_usize(x) == ToString(x)

\* (mutant of QuietArgs: the test of verbose inverted)
QuietArgs_inverted(p) == IF p.verbose THEN <<"--quiet">> ELSE <<>>

\* if !self.profile.verbose { self.inner.arg("--quiet"); }
QuietArgs(p) == IF ~p.verbose THEN <<"--quiet">> ELSE <<>>

\* The six switch blocks of spawn, in the order of the code.
SwitchArgs(p) ==
    (IF p.caps THEN <<"--caps">> ELSE <<>>)
    \o (IF p.allusers THEN <<"--allusers">> ELSE <<>>)
    \o (IF p.apparmor THEN <<"--apparmor">> ELSE <<>>)
    \o (IF p.appimage THEN <<"--appimage">> ELSE <<>>)
    \o (IF p.deterministic_exit_code THEN <<"--deterministic-exit-code">> ELSE <<>>)
    \o (IF p.disable_mnt THEN <<"--disable-mnt">> ELSE <<>>)

\* (mutant of CapsDropArgs: the drop-list flag emitted before the keep-list flag)
CapsDropArgs_drop_first(p) ==
    IF p.caps
    THEN CASE p.caps_drop.tag = "DropAll" -> <<"--caps.drop=all">>
           [] p.caps_drop.tag = "Settings" ->
                (IF Len(p.caps_drop.blacklist) /= 0
                 THEN <<"--caps.drop=" \o join(p.caps_drop.blacklist, ",")>>
                 ELSE <<>>)
                \o (IF Len(p.caps_drop.whitelist) /= 0
                    THEN <<"--caps.keep=" \o join(p.caps_drop.whitelist, ",")>>
                    ELSE <<>>)
           [] OTHER -> <<>>
    ELSE <<>>

\* (mutant of CapsDropArgs: the test of the caps switch left out)
CapsDropArgs_unguarded(p) ==
    CASE p.caps_drop.tag = "DropAll" -> <<"--caps.drop=all">>
      [] p.caps_drop.tag = "Settings" ->
           (IF Len(p.caps_drop.whitelist) /= 0
            THEN <<"--caps.keep=" \o join(p.caps_drop.whitelist, ",")>>
            ELSE <<>>)
           \o (IF Len(p.caps_drop.blacklist) /= 0
               THEN <<"--caps.drop=" \o join(p.caps_drop.blacklist, ",")>>
               ELSE <<>>)
      [] OTHER -> <<>>

\* if self.profile.caps { match &self.profile.caps_drop { ... } }
CapsDropArgs(p) ==
    IF p.caps
    THEN CASE p.caps_drop.tag = "DropAll" -> <<"--caps.drop=all">>
           [] p.caps_drop.tag = "Settings" ->
                (IF Len(p.caps_drop.whitelist) /= 0
                 THEN <<"--caps.keep=" \o join(p.caps_drop.whitelist, ",")>>
                 ELSE <<>>)
                \o (IF Len(p.caps_drop.blacklist) /= 0
                    THEN <<"--caps.drop=" \o join(p.caps_drop.blacklist, ",")>>
                    ELSE <<>>)
           [] OTHER -> <<>>
    ELSE <<>>

\* if let Some(g) = &self.profile.cgroup / hostname / hosts_file
ScalarArgs(p) ==
    (IF p.cgroup /= None THEN <<"--cgroup=" \o p.cgroup[1]>> ELSE <<>>)
    \o (IF p.hostname /= None THEN <<"--hostname=" \o p.hostname[1]>> ELSE <<>>)
    \o (IF p.hosts_file /= None
        THEN <<"--hosts-file=" \o display(p.hosts_file[1])>> ELSE <<>>)

\* if !self.profile.cpu.is_empty() { ... }
CpuArgs(p) ==
    IF Len(p.cpu) /= 0
    THEN <<"--cpu=" \o join([i \in 1..Len(p.cpu) |-> fmt_usize(p.cpu[i])], ",")>>
    ELSE <<>>

\* for (a, b) in &self.profile.bind
BindArgs(p) ==
    [i \in 1..Len(p.bind) |->
        "--bind=" \o display(p.bind[i][1]) \o "," \o display(p.bind[i][2])]

\* for server in &self.profile.dns
DnsArgs(p) == [i \in 1..Len(p.dns) |-> "--dns=" \o p.dns[i]]

\* for a in &self.profile.blacklists
BlacklistArgs(p) ==
    [i \in 1..Len(p.blacklists) |-> "--blacklist=" \o display(p.blacklists[i])]

\* for i in &self.profile.ignore
IgnoreArgs(p) == [i \in 1..Len(p.ignore) |-> "--ignore=" \o p.ignore[i]]

\* .arg("--").arg(self.executable.as_ref()).args(self.arg_vec.iter()...)
TargetArgs(exe, av) == <<"--", exe>> \o av

\* (mutant of SpawnArgs: the capability-drop block moved after the scalars)
SpawnArgs_caps_drop_late(p, exe, av) ==
    QuietArgs(p) \o SwitchArgs(p) \o ScalarArgs(p) \o CapsDropArgs(p)
    \o CpuArgs(p) \o BindArgs(p) \o DnsArgs(p) \o BlacklistArgs(p)
    \o IgnoreArgs(p) \o TargetArgs(exe, av)

\* Everything one spawn call hands to self.inner.arg / args, in order.
SpawnArgs(p, exe, av) ==
    QuietArgs(p) \o SwitchArgs(p) \o CapsDropArgs(p) \o ScalarArgs(p)
    \o CpuArgs(p) \o BindArgs(p) \o DnsArgs(p) \o BlacklistArgs(p)
    \o IgnoreArgs(p) \o TargetArgs(exe, av)

\* Command::arg / Command::args on self.inner: the arguments are appended to
\* those the Command already holds.
InnerArgs(old, new_args) == old \o new_args

\* spawn(&mut self): the launcher is started with the arguments inner holds
\* after the appends. Whether the OS then starts the launcher (Ok(child) or
\* Err) changes nothing in the command: the appends are made before
\* Command::spawn is called.
spawn(c) ==
    /\ inner' = [inner EXCEPT
                   ![c] = InnerArgs(@, SpawnArgs(profile[c], executable[c], arg_vec[c]))]
    /\ spawns' = [spawns EXCEPT ![c] = @ + 1]
    /\ budget > 0
    /\ budget' = budget - 1
    /\ UNCHANGED <<executable, arg_vec, profile, builder, built>>

\* --------------------------------------------------------- specifications
\* One top-level builder call on command c.
BuilderCall(c) ==
    \/ \E name \in Switches : bool_option(c, name)
    \/ \E name \in StringOptions, s \in Strs : inlinablestring_option_replace(c, name, s)
    \/ \E name \in PathOptions, s \in Paths : path_option_replace(c, name, s)
    \/ \E no \in CpuNos : cpu(c, no)
    \/ \E iter \in CpuLists : cpus(c, iter)
    \/ \E path \in Paths : blacklist(c, path)
    \/ \E paths \in PathLists : blacklists(c, paths)
    \/ \E ab \in BindPairs : bind(c, ab[1], ab[2])
    \/ \E pairs \in BindLists : binds(c, pairs)
    \/ \E s \in Strs : dns(c, s)
    \/ \E ss \in StrLists : dnss(c, ss)
    \/ \E s \in Strs : ignore(c, s)
    \/ \E ss \in StrLists : ignores(c, ss)
    \/ \E s \in Strs : arg(c, s)
    \/ \E ss \in StrLists : args(c, ss)
    \/ \E cfg \in {NotSpecified, drop_all} : caps_drop(c, cfg)
    \/ caps_drop_built(c)

\* One call on the capability-drop sub-builder.
SubBuilderCall ==
    \/ \E a \in CapNames : CapsDropBuilder_blacklist(a)
    \/ \E a \in CapNames : CapsDropBuilder_whilelist(a)
    \/ \E i \in CapLists : CapsDropBuilder_blacklists(i)
    \/ \E i \in CapLists : CapsDropBuilder_whilelists(i)
    \/ build

\* Spec: one command and one sub-builder, every method.
Init == new({1}, MaxCalls)

Next ==
    \/ BuilderCall(1)
    \/ SubBuilderCall
    \/ spawn(1)

Spec == Init /\ [][Next]_vars

\* SpecCaps: a caller that only configures capabilities, with more calls.
CapsCall(c) ==
    \/ bool_option(c, "caps")
    \/ \E cfg \in {NotSpecified, drop_all} : caps_drop(c, cfg)
    \/ caps_drop_built(c)

InitCaps == new({1}, MaxCapsCalls)

NextCaps ==
    \/ CapsCall(1)
    \/ SubBuilderCall
    \/ spawn(1)

SpecCaps == InitCaps /\ [][NextCaps]_vars

\* SpecPair: a caller that configures and spawns one command, then configures
\* and spawns a second one for the same program, with one option of every
\* shape: the switches, a scalar, a list and the target arguments.
InitPair == new({1, 2}, MaxPairCalls) /\ executable[1] = executable[2]

PairCall(c) ==
    \/ \E name \in Switches : bool_option(c, name)
    \/ \E s \in Strs : inlinablestring_option_replace(c, "hostname", s)
    \/ \E s \in Strs : dns(c, s)
    \/ \E s \in Strs : arg(c, s)

Turn(c) == spawns[c] = 0 /\ (c = 2 => spawns[1] = 1)

NextPair ==
    \E c \in {1, 2} :
        \/ Turn(c) /\ PairCall(c)
        \/ Turn(c) /\ spawn(c)

SpecPair == InitPair /\ [][NextPair]_vars

\* SpecOrder: a caller that configures one command and the sub-builder with
\* up to MaxOrderCalls calls, in any order and each option at most once, and
\* then spawns the command. The options are every switch, every scalar, the
\* cpu list, the four repeatable lists, the target arguments and the
\* capability-drop value: drop_all, or one built from a keep entry, a drop
\* entry or both.
\* The caller is still configuring c: its last call is spawn.
Configuring(c) == spawns[c] = 0 /\ budget > 1

OrderCall(c) ==
    \/ \E name \in Switches :
          Configuring(c) /\ ~profile[c][name] /\ bool_option(c, name)
    \/ \E name \in StringOptions :
          /\ Configuring(c) /\ profile[c][name] = None
          /\ inlinablestring_option_replace(c, name, "a")
    \/ \E name \in PathOptions :
          /\ Configuring(c) /\ profile[c][name] = None
          /\ path_option_replace(c, name, "/a")
    \/ Configuring(c) /\ profile[c].cpu = <<>> /\ cpu(c, 1)
    \/ Configuring(c) /\ profile[c].bind = <<>> /\ bind(c, "/a", "/b")
    \/ Configuring(c) /\ profile[c].dns = <<>> /\ dns(c, "a")
    \/ Configuring(c) /\ profile[c].blacklists = <<>> /\ blacklist(c, "/a")
    \/ Configuring(c) /\ profile[c].ignore = <<>> /\ ignore(c, "a")
    \/ Configuring(c) /\ arg_vec[c] = <<>> /\ arg(c, "a")
    \/ Configuring(c) /\ profile[c].caps_drop = NotSpecified /\ caps_drop(c, drop_all)
    \/ Configuring(c) /\ profile[c].caps_drop = NotSpecified /\ caps_drop_built(c)

OrderSubBuilderCall(c) ==
    \/ /\ Configuring(c) /\ builder.keep = <<>> /\ built = None
       /\ CapsDropBuilder_whilelist("fowner")
    \/ /\ Configuring(c) /\ builder.drop = <<>> /\ built = None
       /\ CapsDropBuilder_blacklist("chown")
    \/ Configuring(c) /\ built = None /\ profile[c].caps_drop = NotSpecified /\ build

OrderSpawn(c) == spawns[c] = 0 /\ spawn(c)

InitOrder == new({1}, MaxOrderCalls + 1)

NextOrder ==
    \/ OrderCall(1)
    \/ OrderSubBuilderCall(1)
    \/ OrderSpawn(1)

SpecOrder == InitOrder /\ [][NextOrder]_vars

\* ------------------------------------------------- vocabulary of the claims
Range(v) == {v[i] : i \in 1..Len(v)}

\* The step is a spawn call on c / the first spawn call on c; the vector
\* handed to the launcher is then inner'[c].
IsSpawn(c) == spawns'[c] = spawns[c] + 1
FirstSpawn(c) == spawns[c] = 0 /\ spawns'[c] = 1

\* The launcher flags of a vector: what precedes the first "--".
RECURSIVE LauncherFlags(_)
LauncherFlags(v) ==
    IF v = <<>> \/ Head(v) = "--" THEN <<>>
    ELSE <<Head(v)>> \o LauncherFlags(Tail(v))

\* The entries of v that satisfy Test, in order.
Only(v, Test(_)) == SelectSeq(v, Test)

\* Comma-joined entries, built from the left.
RECURSIVE CommaJoined(_)
CommaJoined(v) ==
    IF v = <<>> THEN ""
    ELSE IF Len(v) = 1 THEN v[1]
    ELSE CommaJoined(SubSeq(v, 1, Len(v) - 1)) \o "," \o v[Len(v)]

\* The launcher's flag for each switch (firejail's documented names).
SwitchFlag ==
    [name \in Switches \ {"verbose"} |->
        CASE name = "allow_debuggers" -> "--allow-debuggers"
          [] name = "allusers" -> "--allusers"
          [] name = "apparmor" -> "--apparmor"
          [] name = "appimage" -> "--appimage"
          [] name = "caps" -> "--caps"
          [] name = "disable_mnt" -> "--disable-mnt"
          [] name = "deterministic_exit_code" -> "--deterministic-exit-code"]

FlagIf(b, f) == IF b THEN <<f>> ELSE <<>>
EachFlag(prefix, v) == [i \in 1..Len(v) |-> prefix \o v[i]]

\* The flags of one option, recognised by name among the values callers pass.
IsDnsFlag(f) == \E x \in Strs : f = "--dns=" \o x
IsIgnoreFlag(f) == \E x \in Strs : f = "--ignore=" \o x
IsBlacklistFlag(f) == \E x \in Paths : f = "--blacklist=" \o x
IsBindFlag(f) == \E ab \in BindPairs : f = "--bind=" \o ab[1] \o "," \o ab[2]
IsCgroupFlag(f) == \E x \in Strs : f = "--cgroup=" \o x
IsHostnameFlag(f) == \E x \in Strs : f = "--hostname=" \o x
IsHostsFileFlag(f) == \E x \in Paths : f = "--hosts-file=" \o x

\* The vector the emission rules of the specification derive: rule by rule,
\* in the order the specification lists them.
RuleFlags(p) ==
    << FlagIf(~p.verbose, "--quiet"),
       FlagIf(p.caps, "--caps"),
       FlagIf(p.allusers, "--allusers"),
       FlagIf(p.apparmor, "--apparmor"),
       FlagIf(p.appimage, "--appimage"),
       FlagIf(p.deterministic_exit_code, "--deterministic-exit-code"),
       FlagIf(p.disable_mnt, "--disable-mnt"),
       FlagIf(p.caps /\ p.caps_drop.tag = "DropAll", "--caps.drop=all"),
       FlagIf(p.caps /\ p.caps_drop.tag = "Settings" /\ p.caps_drop.whitelist /= <<>>,
              "--caps.keep=" \o CommaJoined(p.caps_drop.whitelist)),
       FlagIf(p.caps /\ p.caps_drop.tag = "Settings" /\ p.caps_drop.blacklist /= <<>>,
              "--caps.drop=" \o CommaJoined(p.caps_drop.blacklist)),
       FlagIf(p.cgroup /= None, "--cgroup=" \o p.cgroup[1]),
       FlagIf(p.hostname /= None, "--hostname=" \o p.hostname[1]),
       FlagIf(p.hosts_file /= None, "--hosts-file=" \o p.hosts_file[1]),
       FlagIf(p.cpu /= <<>>,
              "--cpu=" \o CommaJoined([i \in 1..Len(p.cpu) |-> ToString(p.cpu[i])])),
       [i \in 1..Len(p.bind) |-> "--bind=" \o p.bind[i][1] \o "," \o p.bind[i][2]],
       EachFlag("--dns=", p.dns),
       EachFlag("--blacklist=", p.blacklists),
       EachFlag("--ignore=", p.ignore) >>

RECURSIVE Flatten(_)
Flatten(vs) == IF vs = <<>> THEN <<>> ELSE Head(vs) \o Flatten(Tail(vs))

RuleVector(p, exe, av) == Flatten(RuleFlags(p)) \o <<"--">> \o <<exe>> \o av

\* ------------------------------------------------------------------ C1
\* C1: at the spawn that follows a command's builder calls, with verbose
\* never called the first entry of the vector handed to the launcher is
\* "--quiet"; with verbose called, "--quiet" is not among the launcher flags
\* and nothing stands in its place: the vector is the one the same Profile
\* with verbose unset yields, less its leading "--quiet".
C1_QuietUnlessVerbose ==
    [][\A c \in Cmds :
         /\ (IsSpawn(c) /\ ~profile[c].verbose) =>
               (inner'[c] /= <<>> /\ inner'[c][1] = "--quiet")
         /\ (FirstSpawn(c) /\ profile[c].verbose) =>
               /\ "--quiet" \notin Range(LauncherFlags(inner'[c]))
               /\ <<"--quiet">> \o inner'[c] =
                     RuleVector([profile[c] EXCEPT !.verbose = FALSE],
                                executable[c], arg_vec[c])]_vars

\* A verbose command was spawned once, with another flag in the vector.
C1_Witness ==
    /\ spawns[1] = 1
    /\ profile[1].verbose
    /\ "--quiet" \notin Range(inner[1])
    /\ Len(LauncherFlags(inner[1])) >= 1

\* ------------------------------------------------------------------ C5
\* C5: at the first spawn, for every switch other than verbose, the switch's
\* flag is among the launcher flags if and only if the switch's builder
\* method was called before.
C5_SwitchFlagIffEnabled ==
    [][\A c \in Cmds : FirstSpawn(c) =>
         \A name \in Switches \ {"verbose"} :
            (SwitchFlag[name] \in Range(LauncherFlags(inner'[c]))) <=> profile[c][name]]_vars

\* ------------------------------------------------------------------ C6
\* The capability-drop flags the rules derive from a Profile.
CapsDropFlags(p) ==
    FlagIf(p.caps /\ p.caps_drop.tag = "DropAll", "--caps.drop=all")
    \o FlagIf(p.caps /\ p.caps_drop.tag = "Settings" /\ p.caps_drop.whitelist /= <<>>,
              "--caps.keep=" \o CommaJoined(p.caps_drop.whitelist))
    \o FlagIf(p.caps /\ p.caps_drop.tag = "Settings" /\ p.caps_drop.blacklist /= <<>>,
              "--caps.drop=" \o CommaJoined(p.caps_drop.blacklist))

\* "--quiet" and the flags of the switches.
IsQuietOrSwitchFlag(f) == f = "--quiet" \/ \E name \in DOMAIN SwitchFlag : f = SwitchFlag[name]

C8_EverySpawnFromCurrentProfile ==
    [][\A c \in Cmds : IsSpawn(c) =>
         inner'[c] = RuleVector(profile[c], executable[c], arg_vec[c])]_vars

\* ------------------------------------------------------------------ C2
\* C2: every singular and plural append call to bind, dns, blacklist and
\* ignore adds its elements at the end of the list, duplicates kept, and the
\* first spawn emits one flag per element of each list, in list order, a
\* bind pair (a, b) as the single flag "--bind=a,b".
C2_ListFlagsInAppendOrder ==
    [][\A c \in Cmds :
         /\ \A ab \in BindPairs : bind(c, ab[1], ab[2]) =>
               profile'[c].bind = profile[c].bind \o <<ab>>
         /\ \A l \in BindLists : binds(c, l) => profile'[c].bind = profile[c].bind \o l
         /\ \A x \in Strs : dns(c, x) => profile'[c].dns = profile[c].dns \o <<x>>
         /\ \A l \in StrLists : dnss(c, l) => profile'[c].dns = profile[c].dns \o l
         /\ \A x \in Paths : blacklist(c, x) =>
               profile'[c].blacklists = profile[c].blacklists \o <<x>>
         /\ \A l \in PathLists : blacklists(c, l) =>
               profile'[c].blacklists = profile[c].blacklists \o l
         /\ \A x \in Strs : ignore(c, x) => profile'[c].ignore = profile[c].ignore \o <<x>>
         /\ \A l \in StrLists : ignores(c, l) => profile'[c].ignore = profile[c].ignore \o l
         /\ FirstSpawn(c) =>
               LET flags == LauncherFlags(inner'[c]) IN
               /\ Only(flags, IsBindFlag) =
                     [i \in 1..Len(profile[c].bind) |->
                        "--bind=" \o profile[c].bind[i][1] \o "," \o profile[c].bind[i][2]]
               /\ Only(flags, IsDnsFlag) = EachFlag("--dns=", profile[c].dns)
               /\ Only(flags, IsBlacklistFlag) = EachFlag("--blacklist=", profile[c].blacklists)
               /\ Only(flags, IsIgnoreFlag) = EachFlag("--ignore=", profile[c].ignore)]_vars

\* bind(/a,/b) then binds([(/c,/d), (/a,/b)]) then spawn: three bind flags,
\* the repeated pair emitted twice.
C2_Witness ==
    /\ spawns[1] = 1
    /\ inner[1] = <<"--quiet", "--bind=/a,/b", "--bind=/c,/d", "--bind=/a,/b",
                    "--", executable[1]>>

\* ------------------------------------------------------------------ C3
\* The flags a caller that only configures capabilities gets besides the
\* capability-drop ones.
NotCapsDropFlag(f) == f \in {"--quiet", "--caps"}
IsCapsDropFlag(f) == ~NotCapsDropFlag(f)

\* C3: whilelist(s) appends to the keep-list and blacklist(s) to the
\* drop-list, build() yields Settings of the two lists, and with caps enabled
\* and Settings installed the first spawn emits "--caps.keep=<keep-list,
\* comma-joined>" iff the keep-list is non-empty, then "--caps.drop=<drop-list,
\* comma-joined>" iff the drop-list is non-empty, keep before drop; DropAll
\* emits only "--caps.drop=all".
C3_KeepThenDrop ==
    [][\A c \in Cmds :
         /\ \A a \in CapNames : CapsDropBuilder_whilelist(a) =>
               builder' = [keep |-> builder.keep \o <<a>>, drop |-> builder.drop]
         /\ \A a \in CapNames : CapsDropBuilder_blacklist(a) =>
               builder' = [keep |-> builder.keep, drop |-> builder.drop \o <<a>>]
         /\ \A l \in CapLists : CapsDropBuilder_whilelists(l) =>
               builder' = [keep |-> builder.keep \o l, drop |-> builder.drop]
         /\ \A l \in CapLists : CapsDropBuilder_blacklists(l) =>
               builder' = [keep |-> builder.keep, drop |-> builder.drop \o l]
         /\ build => built' = Some(Settings(builder.keep, builder.drop))
         /\ caps_drop_built(c) => profile'[c].caps_drop = built[1]
         /\ (FirstSpawn(c) /\ profile[c].caps /\ profile[c].caps_drop.tag = "Settings") =>
               Only(LauncherFlags(inner'[c]), IsCapsDropFlag) =
                  FlagIf(profile[c].caps_drop.whitelist /= <<>>,
                         "--caps.keep=" \o CommaJoined(profile[c].caps_drop.whitelist))
                  \o FlagIf(profile[c].caps_drop.blacklist /= <<>>,
                            "--caps.drop=" \o CommaJoined(profile[c].caps_drop.blacklist))
         /\ (FirstSpawn(c) /\ profile[c].caps /\ profile[c].caps_drop.tag = "DropAll") =>
               Only(LauncherFlags(inner'[c]), IsCapsDropFlag) = <<"--caps.drop=all">>]_vars

\* The scenario of the test: keep-list [fowner], drop-list [chown], caps.
C3_Witness ==
    /\ spawns[1] = 1
    /\ inner[1] = <<"--quiet", "--caps", "--caps.keep=fowner", "--caps.drop=chown",
                    "--", executable[1]>>

\* ------------------------------------------------------------------ C4
\* C4: while the caps switch is not enabled, no vector handed to the launcher
\* holds a capability-related flag, whatever CapsDrop value is installed: a
\* capabilities-only caller's vectors then hold nothing but "--quiet", "--"
\* and the executable. And caps_drop takes any value in any state: a caller
\* with a call left can install NotSpecified, DropAll and whatever was built.
C4_NoCapsFlagsWithoutSwitch ==
    \A c \in Cmds :
        /\ ~profile[c].caps => Range(inner[c]) \subseteq {"--quiet", "--", executable[c]}
        /\ budget > 0 =>
              /\ \A cfg \in {NotSpecified, drop_all} : ENABLED caps_drop(c, cfg)
              /\ built /= None => ENABLED caps_drop_built(c)

\* Spawned twice with the switch off, Settings with both lists installed.
C4_Witness ==
    /\ spawns[1] = 2
    /\ ~profile[1].caps
    /\ profile[1].caps_drop.tag = "Settings"
    /\ profile[1].caps_drop.whitelist /= <<>>
    /\ profile[1].caps_drop.blacklist /= <<>>

\* ------------------------------------------------------------------ C7
\* C7: two commands configured by builder calls that end in the same Profile,
\* the same executable and the same target arguments hand the launcher the
\* same vector at their first spawn.
C7_SameFieldsSameVector ==
    (/\ \A c \in Cmds : spawns[c] = 1
     /\ \A c, d \in Cmds :
          /\ profile[c] = profile[d]
          /\ executable[c] = executable[d]
          /\ arg_vec[c] = arg_vec[d])
    => \A c, d \in Cmds : inner[c] = inner[d]

\* Both commands were spawned with the same two options set, a switch and a
\* scalar, which all of the caller's calls went into.
C7_Witness ==
    /\ Cmds = {1, 2}
    /\ spawns[1] = 1 /\ spawns[2] = 1
    /\ profile[1] = profile[2]
    /\ arg_vec[1] = arg_vec[2]
    /\ profile[1].caps /\ profile[1].hostname /= None
    /\ inner[1] /= <<>>

\* ------------------------------------------------------------------ C9
\* C9: a call to the setter of cgroup, hostname or hosts_file leaves its
\* argument in the option, whatever was there, and the first spawn emits one
\* flag with the value the option holds, or none if it holds none.
C9_LastWriteWins ==
    [][\A c \in Cmds :
         /\ \A name \in StringOptions, x \in Strs :
               inlinablestring_option_replace(c, name, x) => profile'[c][name] = Some(x)
         /\ \A name \in PathOptions, x \in Paths :
               path_option_replace(c, name, x) => profile'[c][name] = Some(x)
         /\ FirstSpawn(c) =>
               LET flags == LauncherFlags(inner'[c]) IN
               /\ Only(flags, IsCgroupFlag) =
                     FlagIf(profile[c].cgroup /= None, "--cgroup=" \o profile[c].cgroup[1])
               /\ Only(flags, IsHostnameFlag) =
                     FlagIf(profile[c].hostname /= None, "--hostname=" \o profile[c].hostname[1])
               /\ Only(flags, IsHostsFileFlag) =
                     FlagIf(profile[c].hosts_file /= None,
                            "--hosts-file=" \o profile[c].hosts_file[1])]_vars

\* Three calls were made, the last one spawn, and hostname holds b with
\* nothing else set: hostname was set and the one flag carries b.
C9_Witness ==
    /\ spawns[1] = 1
    /\ budget = MaxCalls - 3
    /\ profile[1] = [NewProfile EXCEPT !.hostname = Some("b")]
    /\ inner[1] = <<"--quiet", "--hostname=b", "--", executable[1]>>

\* ----------------------------------------------------------------- C10
\* The step is a call on c of a top-level method whose option is field g.
Targets(c, g) ==
    CASE g \in Switches -> bool_option(c, g)
      [] g \in StringOptions -> \E x \in Strs : inlinablestring_option_replace(c, g, x)
      [] g \in PathOptions -> \E x \in Paths : path_option_replace(c, g, x)
      [] g = "cpu" -> (\E x \in CpuNos : cpu(c, x)) \/ (\E l \in CpuLists : cpus(c, l))
      [] g = "blacklists" ->
            (\E x \in Paths : blacklist(c, x)) \/ (\E l \in PathLists : blacklists(c, l))
      [] g = "bind" ->
            (\E ab \in BindPairs : bind(c, ab[1], ab[2])) \/ (\E l \in BindLists : binds(c, l))
      [] g = "dns" -> (\E x \in Strs : dns(c, x)) \/ (\E l \in StrLists : dnss(c, l))
      [] g = "ignore" -> (\E x \in Strs : ignore(c, x)) \/ (\E l \in StrLists : ignores(c, l))
      [] g = "caps_drop" ->
            (\E cfg \in {NotSpecified, drop_all} : caps_drop(c, cfg)) \/ caps_drop_built(c)

\* C10: a step changes at most one field of a command's Profile, and then it
\* is a call of a top-level method of that field and leaves the executable
\* and the target arguments as they were; the sub-builder's methods change
\* no Profile field, and a step that changes the sub-builder's lists changes
\* no CapsDrop value already built or installed.
C10_Frame ==
    [][\A c \in Cmds :
         LET changed == {g \in DOMAIN profile[c] : profile'[c][g] /= profile[c][g]} IN
         /\ Cardinality(changed) <= 1
         /\ \A g \in changed :
               /\ Targets(c, g)
               /\ \A d \in Cmds \ {c} : profile'[d] = profile[d]
               /\ executable' = executable
               /\ arg_vec' = arg_vec
         /\ SubBuilderCall => (profile' = profile /\ executable' = executable
                               /\ arg_vec' = arg_vec)
         /\ (builder' /= builder) => (built' = built /\ profile' = profile)]_vars

\* A value was built and installed, and the sub-builder was appended to since.
C10_Witness ==
    /\ profile[1].caps_drop.tag = "Settings"
    /\ profile[1].caps_drop.whitelist /= builder.keep
    /\ builder.keep /= <<>>

====
